---- MODULE Spec2Model ----
(***************************************************************************)
(* moltstream: the bridge between the editor front end (JSON-RPC lines on  *)
(* stdin/stdout) and the gateway (one authenticated websocket).            *)
(*                                                                         *)
(* Modelled here: the gateway client (connection, challenge handshake, run *)
(* tracking, delta computation) and the bridge's dispatch of local         *)
(* requests, with the two threads of control the program has: the bridge's *)
(* dispatch loop and the client's read loops (one goroutine per Connect).  *)
(* The session log manager (creation, size check, archival of session.md)  *)
(* is modelled over a directory whose files are sequences of blocks, on    *)
(* its own and under the bridge's archive and session_path requests.       *)
(*                                                                         *)
(* Texts are sequences of characters. The gateway is the environment: it   *)
(* sends one challenge per connection (more than one in SpecChallenge),    *)
(* one result per request written to it, and chat events of any run, state *)
(* and text at any time.                                                   *)
(***************************************************************************)
EXTENDS Integers, Sequences, FiniteSets

\* ------------------------------------------------------------------ bounds

\* local request ids are 0..MaxId, each issued at most once
MaxId == 1
\* send requests the editor front end writes
MaxSends == 2
\* lines the bridge writes to the front end
MaxLines == 4
\* Sends of the subprocess-relay client that start a command
MaxRelay == 2
Relays == 1..MaxRelay
\* output lines one command writes
MaxOut == 2
\* successful dials (connection handles 1..MaxConn)
MaxConn == 2
\* longest cumulative text the gateway reports
MaxLen == 2
\* seconds the wall clock advances
MaxTime == 1
\* turn blocks appended to one session log
MaxTurns == 2
\* session logs created
MaxCreate == 3

\* ---------------------------------------------------------------- alphabets

Alphabet == {"a", "b"}
Texts == UNION {[1..k -> Alphabet] : k \in 0..MaxLen}
\* the server-supplied error text of an event in state "error"
ErrorMessages == {<<"x">>}
Runs == {"r1", "r2"}
Nonces == {"n1"}
\* chat event states: "delta" is the non-terminal one
States == {"delta", "final", "error", "aborted"}
Ids == 0..MaxId
Conns == 1..MaxConn
\* c.reqID never exceeds the number of send requests
MaxReq == MaxId + 1

\* protocol error codes
ErrParse == -32700
ErrMethodNotFound == -32601
ErrInvalidParams == -32602
ErrInternal == -32603
ErrNotConnected == -32000
ErrGatewayError == -32001

\* loadConfig's default max_size_bytes (1GB)
DefaultMaxSize == 1073741824
\* an absent file
NoFile == <<>>
\* timestamps of archive file names: time.Now() at one-second resolution
Stamps == 0..MaxTime
\* configured thresholds, in units of the header's size (a turn block is one unit)
Thresholds == 0..(MaxTurns + 1)

\* a read loop that has not started or has returned (otherwise: the handle it reads)
LoopNone == 0

\* ------------------------------------------------------------ pure helpers

Min(a, b) == IF a < b THEN a ELSE b

Decimal == <<"1", "2", "3", "4", "5", "6", "7", "8", "9">>
ChatPrefix == <<"c", "h", "a", "t", "-">>
ConnectID == <<"c", "o", "n", "n", "e", "c", "t">>
\* fmt.Sprintf("chat-%d", n)
ChatID(n) == ChatPrefix \o <<Decimal[n]>>
FrameIDs == {ConnectID} \cup {ChatID(n) : n \in 1..MaxReq}
\* the request number a chat id was formatted from (0: not a chat id)
ChatNum(id) == IF \E n \in 1..MaxReq : id = ChatID(n)
               THEN CHOOSE n \in 1..MaxReq : id = ChatID(n)
               ELSE 0

IsPrefix(p, s) == Len(p) <= Len(s) /\ SubSeq(s, 1, Len(p)) = p

\* frame.ID != "" && len(frame.ID) >= 5 && frame.ID[:5] == "chat-"
HasChatPrefix(id) == id # <<>> /\ Len(id) >= 5 /\ SubSeq(id, 1, 5) = ChatPrefix

\* activeRunID == "" || event.RunID != activeRunID
IgnoredNever(active, run) == FALSE
Ignored(active, run) == active = "" \/ run # active

\* delta := ""; if len(fullText) > len(lastContent) { delta = fullText[len(lastContent):] }
DeltaWhole(fullText, last) == fullText
Delta(fullText, last) ==
  IF Len(fullText) > Len(last) THEN SubSeq(fullText, Len(last) + 1, Len(fullText)) ELSE <<>>

\* done := event.State == "final" || event.State == "error" || event.State == "aborted"
IsDoneFinalOnly(state) == state = "final"
IsDoneNever(state) == FALSE
IsDone(state) == state \in {"final", "error", "aborted"}

\* the onMessage calls at the end of handleChatEvent
OnMessageCallsDelta(state, delta, done, errorMessage) ==
  IF delta # <<>> \/ done THEN <<[content |-> delta, done |-> done]>> ELSE <<>>
OnMessageCalls(state, delta, done, errorMessage) ==
  IF state = "error" THEN <<[content |-> errorMessage, done |-> TRUE]>>
  ELSE IF delta # <<>> \/ done THEN <<[content |-> delta, done |-> done]>>
  ELSE <<>>

\* local messages written to stdout
Result(id, body) == [t |-> "result", id |-> id, body |-> body]
Error(id, code, msg) == [t |-> "error", id |-> id, code |-> code, message |-> msg]
Notification(method, params) == [t |-> "notification", method |-> method, params |-> params]
IsResponse(m) == m.t \in {"result", "error"}

\* ------------------------------------------------------------------- state

VARIABLES
  main,          \* the process: "init" (constructed), "run" (in Bridge.Run), "exit",
                 \* "panic" (ended by an unrecovered panic)
  conn,          \* c.conn: 0 is nil, k > 0 the k-th dialled connection
  connState,     \* transport state of each connection: none, open, closed, failed
  loop,          \* read loop started by the k-th Connect: LoopNone, or the handle it reads
  connected,     \* c.connected
  connectNonce,  \* c.connectNonce
  clientReqID,   \* c.reqID
  activeRunID,   \* c.activeRunID
  lastContent,   \* c.lastContent
  deviceID,      \* c.deviceID, by its length
  privateKey,    \* c.privateKey: TRUE when loadDeviceIdentity set it, FALSE when nil
  pc,            \* the dispatch loop inside handleSend: idle, send, record
  cur,           \* the id of the send being handled
  bridgeReqID,   \* b.reqID, the deferred response id
  \* history
  challenged,    \* connections on which a connect.challenge was received
  rq,            \* each local request id: new, pending, resolved
  resp,          \* responses emitted per request id (counted up to 2)
  sendOf,        \* the local request id whose Send wrote chat-n (-1: none)
  runSrc,        \* n of the chat-n acknowledgement that set the active run
  trk,           \* the events of the run since its acknowledgement
  ended,         \* runs whose terminal event was handled and that were not acknowledged again
  awaiting,      \* requests written to the gateway and not yet answered
  authed,        \* connections on which an ok result to the connect request was read
  \* the simple direct-socket client (package gateway)
  sconn,         \* c.conn: 0 is nil, k > 0 the k-th dialled connection
  sconnState,    \* transport state of each of its connections
  sloop,         \* its read loop started by the k-th Connect: LoopNone, or the handle it reads
  sconnected,    \* c.connected
  \* the editor front end (init.lua) and the bridge it runs, seen from it
  response_in_progress,  \* response_in_progress
  scheduled,     \* the callbacks passed to vim.schedule and not yet run, in order
  pipe,          \* the lines the bridge wrote to stdout, not yet passed to on_stdout
  unanswered,    \* history: send requests written whose response was not handled yet
  running,       \* send requests the bridge has read and not yet answered
  emitted,       \* history: lines the bridge wrote so far
  sends,         \* history: send requests written so far
  \* the subprocess-relay client (part_002): one openclaw process per Send
  rsends,        \* Sends that started their command so far
  rleft,         \* per Send: output lines its process has still to write
  rexited,       \* per Send: the process has exited
  rpipe,         \* per Send: the lines written to stdout and not yet read
  rclosed,       \* per Send: cmd.Wait has closed the read end of the pipe
  rscan,         \* per Send: position of the goroutine reading stdout
  rcalls,        \* history: the calls of onMessage, in order
  \* the session log manager and its directory
  sessionFile,   \* the content of session.md (NoFile: absent)
  archiveDir,    \* archive/session-<stamp>.md, by stamp (NoFile: absent)
  clock,         \* the wall clock, in seconds
  created,       \* sessions created so far (generateID: the clock in nanoseconds)
  maxSizeBytes,  \* m.maxSizeBytes
  autoArchive,   \* m.autoArchive
  rotated,       \* history: the contents that were moved to the archive
  \* the last step
  op,            \* the operation and its input
  out,           \* the local messages it emitted, in order
  cb,            \* the onMessage calls it made
  wr             \* the frames it wrote to the gateway

client == <<conn, connected, connectNonce, clientReqID, activeRunID, lastContent>>
transport == <<connState, loop>>
bridge == <<pc, cur, bridgeReqID>>
history == <<challenged, rq, resp, sendOf, runSrc, trk, ended, awaiting, authed>>
identity == <<deviceID, privateKey>>
simple == <<sconn, sconnState, sloop, sconnected>>
editor == <<response_in_progress, scheduled, pipe, unanswered, running, emitted, sends>>
relay == <<rsends, rleft, rexited, rpipe, rclosed, rscan, rcalls>>
others == <<identity, simple, editor, relay>>
session == <<sessionFile, archiveDir, clock, created, maxSizeBytes, autoArchive, rotated>>
step == <<op, out, cb, wr>>
vars == <<main, client, transport, bridge, history, session, others, step>>

\* sendConnect logs c.deviceID[:16]
LogPrefix == 16
\* lengths of the device identifier of the identity file
DeviceLens == {0, LogPrefix - 1, LogPrefix, LogPrefix + 1}

\* Client.loadDeviceIdentity: nothing is set when the file cannot be read or
\* parsed; the identifier alone when the private key cannot be decoded
loadDeviceIdentity(fileOK, keyOK, len) ==
  IF ~fileOK THEN [deviceID |-> 0, privateKey |-> FALSE]
  ELSE [deviceID |-> len, privateKey |-> keyOK]

\* NewClient with an identity file as the gateway issues it
InitIdentity ==
  LET id == loadDeviceIdentity(TRUE, TRUE, LogPrefix + 1)
  IN deviceID = id.deviceID /\ privateKey = id.privateKey

\* NewClient with any identity file, or none
InitAnyIdentity ==
  \E fileOK, keyOK \in BOOLEAN, len \in DeviceLens :
    LET id == loadDeviceIdentity(fileOK, keyOK, len)
    IN deviceID = id.deviceID /\ privateKey = id.privateKey

NoTrk == [n |-> 0, strict |-> TRUE, err |-> FALSE, deliv |-> <<>>, cum |-> <<>>, calls |-> <<>>]

InitGateway ==
  /\ main = "init"
  /\ conn = 0
  /\ connState = [k \in Conns |-> "none"]
  /\ loop = [k \in Conns |-> LoopNone]
  /\ connected = FALSE
  /\ connectNonce = ""
  /\ clientReqID = 0
  /\ activeRunID = ""
  /\ lastContent = <<>>
  /\ pc = "idle"
  /\ cur = 0
  /\ bridgeReqID = 0
  /\ challenged = {}
  /\ rq = [i \in Ids |-> "new"]
  /\ resp = [i \in Ids |-> 0]
  /\ sendOf = [n \in 1..MaxReq |-> -1]
  /\ runSrc = 0
  /\ trk = NoTrk
  /\ ended = {}
  /\ awaiting = {}
  /\ authed = {}
  /\ op = [name |-> "new"]
  /\ out = <<>>
  /\ cb = <<>>
  /\ wr = <<>>

\* NewManager: the directories exist, nothing is logged yet
InitManager(max, auto) ==
  /\ sessionFile = NoFile
  /\ archiveDir = [t \in Stamps |-> NoFile]
  /\ clock = 0
  /\ created = 0
  /\ maxSizeBytes = max
  /\ autoArchive = auto
  /\ rotated = {}

\* gateway.NewClient
InitSimple ==
  /\ sconn = 0
  /\ sconnState = [k \in Conns |-> "none"]
  /\ sloop = [k \in Conns |-> LoopNone]
  /\ sconnected = FALSE

\* init.lua as loaded, the bridge not yet written to
InitEditor ==
  /\ response_in_progress = FALSE
  /\ scheduled = <<>>
  /\ pipe = <<>>
  /\ unanswered = 0
  /\ running = 0
  /\ emitted = 0
  /\ sends = 0

\* NewClient of the subprocess-relay variant: no command started
InitRelay ==
  /\ rsends = 0
  /\ rleft = [s \in Relays |-> 0]
  /\ rexited = [s \in Relays |-> FALSE]
  /\ rpipe = [s \in Relays |-> <<>>]
  /\ rclosed = [s \in Relays |-> FALSE]
  /\ rscan = [s \in Relays |-> "none"]
  /\ rcalls = <<>>

\* the components that take no part in the bridge process
InitOthers == InitSimple /\ InitEditor /\ InitRelay

\* the process with the default configuration of loadConfig
Init == InitGateway /\ InitIdentity /\ InitManager(DefaultMaxSize, TRUE) /\ InitOthers

\* ---------------------------------------------------------- bookkeeping

\* responses bearing id i among the messages msgs
Responses(msgs, i) ==
  Cardinality({j \in 1..Len(msgs) : IsResponse(msgs[j]) /\ msgs[j].id = i})

\* the step writes msgs to stdout
Emit(msgs) ==
  /\ out' = msgs
  /\ resp' = [i \in Ids |-> Min(2, resp[i] + Responses(msgs, i))]

\* the frames of w that reached the gateway
Written(w) == {[conn |-> w[j].conn, id |-> w[j].id] : j \in {i \in 1..Len(w) : w[i].ok}}

Dialled == {k \in Conns : connState[k] # "none"}
CanDial == Dialled # Conns
NextConn == Cardinality(Dialled) + 1

\* ------------------------------------------------------- gateway client

\* Client.Close: closes the current handle, if any
Close(cs) ==
  IF conn # 0 /\ cs[conn] = "open" THEN [cs EXCEPT ![conn] = "closed"] ELSE cs

\* the read loops that are running
Live == {l \in Conns : loop[l] # LoopNone}

\* Client.Connect after Close (Reconnect) or alone (closeFirst = FALSE):
\* a successful dial stores the handle, clears the nonce and starts a read loop;
\* a failed dial changes nothing more. c.connected is not written.
\* A read loop evaluates c.conn, without the lock, each time it calls
\* ReadMessage: the loops of `moved` were between two reads (or not yet at
\* their first) when c.conn was replaced and read the new handle from then
\* on; the others stay blocked on the handle they evaluated before.
Connect(dialOK, closeFirst, moved) ==
  LET cs == IF closeFirst THEN Close(connState) ELSE connState IN
  IF dialOK
  THEN /\ conn' = NextConn
       /\ connState' = [cs EXCEPT ![NextConn] = "open"]
       /\ loop' = [l \in Conns |-> IF l = NextConn \/ l \in moved THEN NextConn ELSE loop[l]]
       /\ connectNonce' = ""
  ELSE /\ connState' = cs
       /\ UNCHANGED <<conn, loop, connectNonce>>

\* Client.Send's guard: !c.connected || c.conn == nil
NotConnectedNever(isConnected, handle) == FALSE
NotConnected(isConnected, handle) == ~isConnected \/ handle = 0

\* a write on handle k succeeds while the transport is open
WriteOK(k) == connState[k] = "open"

\* --------------------------------------------------------------- bridge

GatewayURL == "ws://gateway"

\* Bridge.handleGatewayMessage: the stream notification, then the deferred response
HandleGatewayMessagePendingOnly(calls, rid) ==
  IF calls = <<>> \/ rid = 0 THEN <<>>
  ELSE <<Notification("stream", [delta |-> calls[1].content, done |-> calls[1].done])>>
       \o (IF calls[1].done THEN <<Result(rid, [status |-> "ok"])>> ELSE <<>>)
HandleGatewayMessage(calls, rid) ==
  IF calls = <<>> THEN <<>>
  ELSE <<Notification("stream", [delta |-> calls[1].content, done |-> calls[1].done])>>
       \o (IF calls[1].done /\ rid # 0 THEN <<Result(rid, [status |-> "ok"])>> ELSE <<>>)

\* b.reqID after handleGatewayMessage
DeferredAfter(calls, rid) ==
  IF calls # <<>> /\ calls[1].done /\ rid # 0 THEN 0 ELSE rid

\* Bridge.handleGatewayError
HandleGatewayError(msg) == <<Notification("error", [message |-> msg])>>

\* main: Bridge.Connect, then Bridge.Run; a failed first dial ends the process
BridgeConnect(dialOK) ==
  /\ main = "init"
  /\ Connect(dialOK, FALSE, {})
  /\ main' = IF dialOK THEN "run" ELSE "exit"
  /\ Emit(IF dialOK THEN <<Notification("connected", [gateway |-> GatewayURL])>> ELSE <<>>)
  /\ op' = [name |-> "Connect", ok |-> dialOK]
  /\ cb' = <<>> /\ wr' = <<>>
  /\ UNCHANGED <<connected, clientReqID, activeRunID, lastContent, bridge>>
  /\ UNCHANGED <<challenged, rq, sendOf, runSrc, trk, ended, awaiting, authed>>
  /\ UNCHANGED <<session, others>>

Idle == main = "run" /\ pc = "idle"

\* the front end uses each id once; ids other than 0 are interchangeable and
\* taken in increasing order
Fresh(id) == rq[id] = "new" /\ \A j \in 1..(id - 1) : rq[j] # "new"

\* handleSend, first part: the IsConnected check
ReqSend(id) ==
  /\ Idle /\ Fresh(id)
  /\ op' = [name |-> "send", id |-> id]
  /\ IF ~connected
     THEN /\ Emit(<<Error(id, ErrNotConnected, "not connected to gateway")>>)
          /\ rq' = [rq EXCEPT ![id] = "resolved"]
          /\ UNCHANGED <<pc, cur>>
     ELSE /\ Emit(<<>>)
          /\ rq' = [rq EXCEPT ![id] = "pending"]
          /\ pc' = "send" /\ cur' = id
  /\ cb' = <<>> /\ wr' = <<>>
  /\ UNCHANGED <<main, client, transport, bridgeReqID>>
  /\ UNCHANGED <<challenged, sendOf, runSrc, trk, ended, awaiting, authed>>
  /\ UNCHANGED <<session, others>>

\* handleSend, second part: Client.Send, and the error response if it fails
SendCall ==
  /\ main = "run" /\ pc = "send"
  /\ cb' = <<>>
  /\ IF NotConnected(connected, conn)
     THEN /\ op' = [name |-> "Send", id |-> cur, ret |-> "not connected"]
          /\ Emit(<<Error(cur, ErrGatewayError, "not connected")>>)
          /\ rq' = [rq EXCEPT ![cur] = "resolved"]
          /\ pc' = "idle"
          /\ wr' = <<>>
          /\ UNCHANGED <<clientReqID, sendOf, awaiting>>
     ELSE LET n == clientReqID + 1 IN
          /\ clientReqID' = n
          /\ wr' = <<[conn |-> conn, id |-> ChatID(n), ok |-> WriteOK(conn)]>>
          /\ awaiting' = awaiting \cup Written(wr')
          /\ IF WriteOK(conn)
             THEN /\ op' = [name |-> "Send", id |-> cur, ret |-> "nil"]
                  /\ Emit(<<>>)
                  /\ sendOf' = [sendOf EXCEPT ![n] = cur]
                  /\ pc' = "record"
                  /\ UNCHANGED rq
             ELSE /\ op' = [name |-> "Send", id |-> cur, ret |-> "write error"]
                  /\ Emit(<<Error(cur, ErrGatewayError, "write error")>>)
                  /\ rq' = [rq EXCEPT ![cur] = "resolved"]
                  /\ pc' = "idle"
                  /\ UNCHANGED sendOf
  /\ UNCHANGED <<main, conn, connected, connectNonce, activeRunID, lastContent>>
  /\ UNCHANGED <<transport, cur, bridgeReqID, challenged, runSrc, trk, ended, authed>>
  /\ UNCHANGED <<session, others>>

\* handleSend, last part: b.reqID = id
SendRecord ==
  /\ main = "run" /\ pc = "record"
  /\ bridgeReqID' = cur
  /\ pc' = "idle"
  /\ op' = [name |-> "record", id |-> cur]
  /\ Emit(<<>>) /\ cb' = <<>> /\ wr' = <<>>
  /\ UNCHANGED <<main, client, transport, cur>>
  /\ UNCHANGED <<challenged, rq, sendOf, runSrc, trk, ended, awaiting, authed>>
  /\ UNCHANGED <<session, others>>

\* the result of handleStatus: Client.IsConnected and the configured gateway
StatusResultConnected(isConnected) == [connected |-> TRUE, gateway |-> GatewayURL]
StatusResult(isConnected) == [connected |-> isConnected, gateway |-> GatewayURL]

\* handleStatus
ReqStatus(id) ==
  /\ Idle /\ Fresh(id)
  /\ op' = [name |-> "status", id |-> id]
  /\ Emit(<<Result(id, StatusResult(connected))>>)
  /\ rq' = [rq EXCEPT ![id] = "resolved"]
  /\ cb' = <<>> /\ wr' = <<>>
  /\ UNCHANGED <<main, client, transport, bridge>>
  /\ UNCHANGED <<challenged, sendOf, runSrc, trk, ended, awaiting, authed>>
  /\ UNCHANGED <<session, others>>

\* handleReconnect: Client.Reconnect is Close, then Connect
ReqReconnect(id, dialOK, moved) ==
  /\ Idle /\ Fresh(id)
  /\ dialOK => CanDial
  /\ moved \subseteq (IF dialOK THEN Live ELSE {})
  /\ Connect(dialOK, TRUE, moved)
  /\ op' = [name |-> "reconnect", id |-> id, ok |-> dialOK]
  /\ Emit(IF dialOK THEN <<Result(id, [status |-> "reconnected"])>>
          ELSE <<Error(id, ErrGatewayError, "websocket dial")>>)
  /\ rq' = [rq EXCEPT ![id] = "resolved"]
  /\ cb' = <<>> /\ wr' = <<>>
  /\ UNCHANGED <<main, connected, clientReqID, activeRunID, lastContent, bridge>>
  /\ UNCHANGED <<challenged, sendOf, runSrc, trk, ended, awaiting, authed>>
  /\ UNCHANGED <<session, others>>

\* ------------------------------------------------------------ transport

\* the transport of an open connection fails (peer gone, network lost)
ConnFail(k) ==
  /\ connState[k] = "open"
  /\ connState' = [connState EXCEPT ![k] = "failed"]
  /\ op' = [name |-> "fail", on |-> k]
  /\ Emit(<<>>) /\ cb' = <<>> /\ wr' = <<>>
  /\ UNCHANGED <<main, client, loop, bridge>>
  /\ UNCHANGED <<challenged, rq, sendOf, runSrc, trk, ended, awaiting, authed>>
  /\ UNCHANGED <<session, others>>

\* frames the gateway may deliver: one challenge at the start of a connection,
\* one result for each request written to it, chat events at any time
ChallengeFrames == {[nonce |-> n] : n \in Nonces}
ChatEventsOver(texts) ==
  {[runId |-> r, state |-> s, text |-> t,
    errorMessage |-> IF s = "error" THEN m ELSE <<>>] :
      r \in Runs, s \in States, t \in texts, m \in ErrorMessages}
ChatEvents == ChatEventsOver(Texts)
\* the cumulative texts of the documented exchange
The == <<"T", "h", "e">>
TheAnswer == The \o <<" ", "a", "n", "s", "w", "e", "r">>
TheAnswerIs42 == TheAnswer \o <<" ", "i", "s", " ", "4", "2", ".">>
AnswerEvents == ChatEventsOver({The, TheAnswer, TheAnswerIs42})
\* the events with the shortest texts: enough where the text plays no part
ShortEvents == ChatEventsOver({<<>>, <<"a">>})
ResFrames ==
  {[id |-> i, ok |-> TRUE, runId |-> r, error |-> FALSE] : i \in FrameIDs, r \in Runs \cup {""}}
  \cup {[id |-> i, ok |-> FALSE, runId |-> "", error |-> e] : i \in FrameIDs, e \in BOOLEAN}

\* ------------------------------------------------------------ read loop

\* the handle a read loop reads is the one c.conn held when it last came to
\* the top of its for loop
Reading(l) == loop[l] # LoopNone
CanRead(l) == Reading(l) /\ connState[loop[l]] = "open"

\* ReadMessage fails: onError, then connected = false, and the loop returns
LoopErr(l) ==
  /\ Reading(l) /\ connState[loop[l]] \in {"closed", "failed"}
  /\ loop' = [loop EXCEPT ![l] = LoopNone]
  /\ connected' = FALSE
  /\ op' = [name |-> "readError", on |-> loop[l]]
  /\ Emit(HandleGatewayError("read"))
  /\ cb' = <<>> /\ wr' = <<>>
  /\ UNCHANGED <<main, conn, connectNonce, clientReqID, activeRunID, lastContent>>
  /\ UNCHANGED <<connState, bridge, challenged, rq, sendOf, runSrc, trk, ended, awaiting, authed>>
  /\ UNCHANGED <<session, others>>

\* handleChallenge and sendConnect: the nonce is stored and the connect request
\* written on c.conn; a failed write is only logged. ed25519.Sign and
\* PrivateKey.Public panic on a nil key and c.deviceID[:16] on a shorter
\* identifier, both before the write; nothing recovers the panic and the
\* process ends
SignPanics(key, len) == ~key \/ len < LogPrefix
HandleChallenge(l, f) ==
  /\ connectNonce' = f.nonce
  /\ challenged' = challenged \cup {loop[l]}
  /\ op' = [name |-> "challenge", on |-> loop[l]]
  /\ Emit(<<>>) /\ cb' = <<>>
  /\ IF SignPanics(privateKey, deviceID)
     THEN /\ main' = "panic"
          /\ loop' = [k \in Conns |-> LoopNone]
          /\ connState' = [k \in Conns |->
                             IF connState[k] = "open" THEN "closed" ELSE connState[k]]
          /\ wr' = <<>>
          /\ UNCHANGED awaiting
     ELSE /\ loop' = [loop EXCEPT ![l] = conn]
          /\ wr' = <<[conn |-> conn, id |-> ConnectID, ok |-> WriteOK(conn)]>>
          /\ awaiting' = awaiting \cup Written(wr')
          /\ UNCHANGED <<main, connState>>
  /\ UNCHANGED <<conn, connected, clientReqID, activeRunID, lastContent>>
  /\ UNCHANGED <<bridge, rq, sendOf, runSrc, trk, ended, authed>>
  /\ UNCHANGED <<session, others>>

\* the gateway's challenge on a connection, and a challenge it delivers again
\* on a connection that had one
RecvChallenge(l, f) == CanRead(l) /\ loop[l] \notin challenged /\ HandleChallenge(l, f)
RecvChallengeAgain(l, f) == CanRead(l) /\ loop[l] \in challenged /\ HandleChallenge(l, f)

\* handleFrame, case "res"
RecvRes(l, f) ==
  /\ CanRead(l) /\ [conn |-> loop[l], id |-> f.id] \in awaiting
  /\ awaiting' = awaiting \ {[conn |-> loop[l], id |-> f.id]}
  /\ loop' = [loop EXCEPT ![l] = conn]
  /\ op' = [name |-> "res", on |-> loop[l], id |-> f.id, ok |-> f.ok, error |-> f.error,
            run |-> f.runId]
  /\ authed' = IF f.ok /\ f.id = ConnectID THEN authed \cup {loop[l]} ELSE authed
  /\ IF f.ok
     THEN /\ IF HasChatPrefix(f.id) /\ f.runId # ""
             THEN /\ activeRunID' = f.runId
                  /\ lastContent' = <<>>
                  /\ runSrc' = ChatNum(f.id)
                  /\ trk' = NoTrk
                  /\ ended' = ended \ {f.runId}
             ELSE UNCHANGED <<activeRunID, lastContent, runSrc, trk, ended>>
          /\ connected' = TRUE
          /\ Emit(<<>>)
     ELSE /\ Emit(IF f.error THEN HandleGatewayError("gateway error") ELSE <<>>)
          /\ UNCHANGED <<activeRunID, lastContent, runSrc, trk, ended, connected>>
  /\ cb' = <<>> /\ wr' = <<>>
  /\ UNCHANGED <<main, conn, connectNonce, clientReqID, connState, bridge>>
  /\ UNCHANGED <<challenged, rq, sendOf>>
  /\ UNCHANGED <<session, others>>

\* the record of a run's events: kept while every event strictly extends the
\* text of the one before, dropped at the first that does not
Track(t, e, calls) ==
  IF t.strict /\ IsPrefix(t.cum, e.text) /\ Len(e.text) > Len(t.cum)
  THEN [n |-> t.n + 1, strict |-> TRUE, err |-> t.err \/ e.state = "error",
        deliv |-> t.deliv \o (IF calls = <<>> THEN <<>> ELSE calls[1].content),
        cum |-> e.text, calls |-> t.calls \o calls]
  ELSE [n |-> 0, strict |-> FALSE, err |-> FALSE, deliv |-> <<>>, cum |-> <<>>, calls |-> <<>>]

\* handleChatEvent, and the bridge's handleGatewayMessage it calls back
RecvChat(l, e) ==
  /\ CanRead(l)
  /\ loop' = [loop EXCEPT ![l] = conn]
  /\ op' = [name |-> "chat", run |-> e.runId, state |-> e.state,
            errorMessage |-> e.errorMessage, src |-> runSrc]
  /\ wr' = <<>>
  /\ IF Ignored(activeRunID, e.runId)
     THEN /\ cb' = <<>>
          /\ Emit(<<>>)
          /\ UNCHANGED <<activeRunID, lastContent, bridgeReqID, rq, runSrc, trk, ended>>
     ELSE LET delta == Delta(e.text, lastContent)
              done == IsDone(e.state)
              calls == OnMessageCalls(e.state, delta, done, e.errorMessage)
          IN /\ lastContent' = IF done THEN <<>> ELSE e.text
             /\ activeRunID' = IF done THEN "" ELSE activeRunID
             /\ cb' = calls
             /\ Emit(HandleGatewayMessage(calls, bridgeReqID))
             /\ bridgeReqID' = DeferredAfter(calls, bridgeReqID)
             /\ trk' = Track(trk, e, calls)
             /\ runSrc' = IF done THEN 0 ELSE runSrc
             /\ ended' = IF done THEN ended \cup {activeRunID} ELSE ended
             /\ rq' = IF done /\ runSrc # 0 /\ sendOf[runSrc] # -1
                      THEN [rq EXCEPT ![sendOf[runSrc]] = "resolved"]
                      ELSE rq
  /\ UNCHANGED <<main, conn, connected, connectNonce, clientReqID>>
  /\ UNCHANGED <<connState, pc, cur, challenged, sendOf, awaiting, authed>>
  /\ UNCHANGED <<session, others>>

\* the accesses to the client's shared fields that a step makes outside
\* c.mu.Lock()/c.mu.Unlock(): every iteration of readLoop evaluates c.conn for
\* ReadMessage; handleChallenge assigns c.connectNonce and sendConnect reads it
\* twice before taking the lock for the write. handleFrame and handleChatEvent
\* take the lock around each of their accesses, as do Connect, Send,
\* IsConnected and Close.
Unlocked(name) ==
  CASE name = "challenge"
         -> {<<"conn", "read">>, <<"connectNonce", "write">>, <<"connectNonce", "read">>}
    [] name \in {"res", "chat", "readError"} -> {<<"conn", "read">>}
    [] OTHER -> {}

\* -------------------------------------------------- session log manager

\* the header block createSession writes; its id is generateID()
Header(n) == <<[id |-> n]>>
\* a turn block the front end appends
Turn == [turn |-> "t"]

\* os.Stat(path): the file exists
Exists(file) == file # NoFile
\* info.Size(), in units of the header's size
Size(file) == Len(file)

\* info.Size() > m.maxSizeBytes
ExceedsOrEqual(size, max) == size >= max
Exceeds(size, max) == size > max

\* Manager.SessionPath
SessionPath == "session.md"

\* Manager.createSession: os.WriteFile(path, header); a failed write is taken
\* to leave the path as it was
createSession(fs, n, writeOK) ==
  IF writeOK THEN [file |-> Header(n), dir |-> fs.dir, err |-> FALSE]
  ELSE [file |-> fs.file, dir |-> fs.dir, err |-> TRUE]

\* Manager.Archive: nil without a log; otherwise os.Rename(src, dst), which
\* replaces a file already at dst, or fails and leaves both as they were
ArchiveAlways(fs, stamp, renameOK) ==
  [file |-> NoFile, dir |-> [fs.dir EXCEPT ![stamp] = fs.file], err |-> ~renameOK]
Archive(fs, stamp, renameOK) ==
  IF ~Exists(fs.file) THEN [file |-> fs.file, dir |-> fs.dir, err |-> FALSE]
  ELSE IF renameOK
       THEN [file |-> NoFile, dir |-> [fs.dir EXCEPT ![stamp] = fs.file], err |-> FALSE]
       ELSE [file |-> fs.file, dir |-> fs.dir, err |-> TRUE]

\* EnsureSession's auto-archive condition
RotatesAnyway(file) == Exists(file) /\ Exceeds(Size(file), maxSizeBytes)
Rotates(file) == Exists(file) /\ autoArchive /\ Exceeds(Size(file), maxSizeBytes)

\* what EnsureSession returns: a path and an error, and the files it leaves
Returned(path, r) == [path |-> path, file |-> r.file, dir |-> r.dir, err |-> r.err]

\* Manager.EnsureSession: the path it returns is empty when the auto-archive
\* failed
EnsureSession(fs, stamp, n, renameOK, writeOK) ==
  IF ~Exists(fs.file) THEN Returned(SessionPath, createSession(fs, n, writeOK))
  ELSE IF Rotates(fs.file)
       THEN LET a == Archive(fs, stamp, renameOK)
            IN IF a.err THEN Returned("", a)
               ELSE Returned(SessionPath, createSession(a, n, writeOK))
       ELSE [path |-> SessionPath, file |-> fs.file, dir |-> fs.dir, err |-> FALSE]

\* the session directory
FS == [file |-> sessionFile, dir |-> archiveDir]

\* a call of EnsureSession
CallEnsureSession(renameOK, writeOK) ==
  LET fs == EnsureSession(FS, clock, created + 1, renameOK, writeOK)
      creates == fs.file # sessionFile
      moved == fs.dir # archiveDir
  IN /\ creates => created < MaxCreate
     /\ ~renameOK => Rotates(sessionFile)
     /\ ~writeOK => (~Exists(sessionFile) \/ (Rotates(sessionFile) /\ renameOK))
     /\ sessionFile' = fs.file
     /\ archiveDir' = fs.dir
     /\ created' = IF creates THEN created + 1 ELSE created
     /\ rotated' = IF moved THEN rotated \cup {sessionFile} ELSE rotated
     /\ op' = [name |-> "ensureSession", existed |-> Exists(sessionFile),
               rotated |-> moved, err |-> fs.err, path |-> fs.path]
     /\ out' = <<>> /\ cb' = <<>> /\ wr' = <<>>
     /\ UNCHANGED <<clock, maxSizeBytes, autoArchive>>
     /\ UNCHANGED <<main, client, transport, bridge, history, others>>

\* a call of Archive
CallArchive(renameOK) ==
  LET fs == Archive(FS, clock, renameOK)
  IN /\ sessionFile' = fs.file
     /\ archiveDir' = fs.dir
     /\ rotated' = IF fs.dir # archiveDir THEN rotated \cup {sessionFile} ELSE rotated
     /\ op' = [name |-> "archive", existed |-> Exists(sessionFile), err |-> fs.err]
     /\ out' = <<>> /\ cb' = <<>> /\ wr' = <<>>
     /\ UNCHANGED <<clock, created, maxSizeBytes, autoArchive>>
     /\ UNCHANGED <<main, client, transport, bridge, history, others>>

\* the front end appends a turn block to the log
AppendTurn ==
  /\ Exists(sessionFile) /\ Len(sessionFile) < MaxTurns + 1
  /\ sessionFile' = Append(sessionFile, Turn)
  /\ op' = [name |-> "append"]
  /\ out' = <<>> /\ cb' = <<>> /\ wr' = <<>>
  /\ UNCHANGED <<archiveDir, clock, created, maxSizeBytes, autoArchive, rotated>>
  /\ UNCHANGED <<main, client, transport, bridge, history, others>>

\* a second passes
Tick ==
  /\ clock < MaxTime
  /\ clock' = clock + 1
  /\ op' = [name |-> "tick"]
  /\ out' = <<>> /\ cb' = <<>> /\ wr' = <<>>
  /\ UNCHANGED <<sessionFile, archiveDir, created, maxSizeBytes, autoArchive, rotated>>
  /\ UNCHANGED <<main, client, transport, bridge, history, others>>

\* Bridge.handleArchive: Manager.Archive, then Manager.EnsureSession with its
\* error dropped (path, _ := ...)
ReqArchive(id, renameOK, writeOK) ==
  LET a == Archive(FS, clock, renameOK)
      e == EnsureSession(a, clock, created + 1, TRUE, writeOK)
      fs == IF a.err THEN Returned("", a) ELSE e
      creates == ~a.err /\ ~e.err
  IN /\ Idle /\ Fresh(id)
     /\ creates => created < MaxCreate
     /\ ~renameOK => Exists(sessionFile)
     /\ ~writeOK => ~a.err
     /\ sessionFile' = fs.file
     /\ archiveDir' = fs.dir
     /\ created' = IF creates THEN created + 1 ELSE created
     /\ rotated' = IF fs.dir # archiveDir THEN rotated \cup {sessionFile} ELSE rotated
     /\ op' = [name |-> "handleArchive", id |-> id, ok |-> ~a.err]
     /\ Emit(IF a.err THEN <<Error(id, ErrInternal, "rename")>>
             ELSE <<Result(id, [status |-> "archived", path |-> e.path])>>)
     /\ rq' = [rq EXCEPT ![id] = "resolved"]
     /\ cb' = <<>> /\ wr' = <<>>
     /\ UNCHANGED <<clock, maxSizeBytes, autoArchive, others>>
     /\ UNCHANGED <<main, client, transport, bridge>>
     /\ UNCHANGED <<challenged, sendOf, runSrc, trk, ended, awaiting, authed>>

\* Bridge.handleSessionPath
ReqSessionPath(id, renameOK, writeOK) ==
  LET e == EnsureSession(FS, clock, created + 1, renameOK, writeOK)
      creates == e.file # sessionFile
  IN /\ Idle /\ Fresh(id)
     /\ creates => created < MaxCreate
     /\ ~renameOK => Rotates(sessionFile)
     /\ ~writeOK => (~Exists(sessionFile) \/ (Rotates(sessionFile) /\ renameOK))
     /\ sessionFile' = e.file
     /\ archiveDir' = e.dir
     /\ created' = IF creates THEN created + 1 ELSE created
     /\ rotated' = IF e.dir # archiveDir THEN rotated \cup {sessionFile} ELSE rotated
     /\ op' = [name |-> "handleSessionPath", id |-> id, ok |-> ~e.err]
     /\ Emit(IF e.err THEN <<Error(id, ErrInternal, "ensure session")>>
             ELSE <<Result(id, [path |-> e.path])>>)
     /\ rq' = [rq EXCEPT ![id] = "resolved"]
     /\ cb' = <<>> /\ wr' = <<>>
     /\ UNCHANGED <<clock, maxSizeBytes, autoArchive, others>>
     /\ UNCHANGED <<main, client, transport, bridge>>
     /\ UNCHANGED <<challenged, sendOf, runSrc, trk, ended, awaiting, authed>>

\* Bridge.Run: an empty line is skipped
ReqBlank ==
  /\ Idle
  /\ op' = [name |-> "blank"]
  /\ Emit(<<>>) /\ cb' = <<>> /\ wr' = <<>>
  /\ UNCHANGED <<main, client, transport, bridge>>
  /\ UNCHANGED <<challenged, rq, sendOf, runSrc, trk, ended, awaiting, authed>>
  /\ UNCHANGED <<session, others>>

\* Bridge.Run: json.Unmarshal fails on a line that is not empty
ParseError == <<Error(0, ErrParse, "parse error")>>
ReqMalformed ==
  /\ Idle
  /\ op' = [name |-> "malformed"]
  /\ Emit(ParseError) /\ cb' = <<>> /\ wr' = <<>>
  /\ UNCHANGED <<main, client, transport, bridge>>
  /\ UNCHANGED <<challenged, rq, sendOf, runSrc, trk, ended, awaiting, authed>>
  /\ UNCHANGED <<session, others>>

\* Bridge.Run: a line longer than the scanner's buffer, malformed or not, makes
\* scanner.Scan return false; Run returns, main returns and the process ends
ReqTooLong(malformed) ==
  /\ Idle
  /\ main' = "exit"
  /\ loop' = [l \in Conns |-> LoopNone]
  /\ connState' = [k \in Conns |-> IF connState[k] = "open" THEN "closed" ELSE connState[k]]
  /\ op' = [name |-> "tooLong", malformed |-> malformed]
  /\ Emit(<<>>) /\ cb' = <<>> /\ wr' = <<>>
  /\ UNCHANGED <<client, bridge>>
  /\ UNCHANGED <<challenged, rq, sendOf, runSrc, trk, ended, awaiting, authed>>
  /\ UNCHANGED <<session, others>>

\* Bridge.handleRequest, case "send": the params do not decode
ReqSendInvalid(id) ==
  /\ Idle /\ Fresh(id)
  /\ op' = [name |-> "invalid", id |-> id]
  /\ Emit(<<Error(id, ErrInvalidParams, "invalid params")>>)
  /\ rq' = [rq EXCEPT ![id] = "resolved"]
  /\ cb' = <<>> /\ wr' = <<>>
  /\ UNCHANGED <<main, client, transport, bridge>>
  /\ UNCHANGED <<challenged, sendOf, runSrc, trk, ended, awaiting, authed>>
  /\ UNCHANGED <<session, others>>

\* Bridge.handleRequest, default case
MethodNotFoundAsParse(id) == <<Error(0, ErrParse, "parse error")>>
MethodNotFound(id) == <<Error(id, ErrMethodNotFound, "method not found")>>
ReqUnknown(id) ==
  /\ Idle /\ Fresh(id)
  /\ op' = [name |-> "unknown", id |-> id]
  /\ Emit(MethodNotFound(id))
  /\ rq' = [rq EXCEPT ![id] = "resolved"]
  /\ cb' = <<>> /\ wr' = <<>>
  /\ UNCHANGED <<main, client, transport, bridge>>
  /\ UNCHANGED <<challenged, sendOf, runSrc, trk, ended, awaiting, authed>>
  /\ UNCHANGED <<session, others>>

\* ------------------------------------------- simple direct-socket client

\* the bridge process and the other components, which the simple client does
\* not touch
BesidesSimple == <<main, client, transport, bridge, history, session, identity, editor, relay>>

SimpleDialled == {k \in Conns : sconnState[k] # "none"}
SimpleNext == Cardinality(SimpleDialled) + 1
SimpleLive == {l \in Conns : sloop[l] # LoopNone}

\* Client.Close: cancels the context and closes the current handle, if any;
\* c.connected is not written
SimpleClose(cs) ==
  IF sconn # 0 /\ cs[sconn] = "open" THEN [cs EXCEPT ![sconn] = "closed"] ELSE cs

\* Client.Connect after Close and a fresh context (Reconnect) or alone: a
\* successful dial stores the handle, sets c.connected and starts a read loop.
\* A read loop evaluates c.ctx and c.conn, without the lock, on every
\* iteration: the loops of `moved` were between two reads when both were
\* replaced and go on with the new context and handle; the others find their
\* handle closed.
SimpleConnectTo(dialOK, closeFirst, moved) ==
  LET cs == IF closeFirst THEN SimpleClose(sconnState) ELSE sconnState IN
  IF dialOK
  THEN /\ sconn' = SimpleNext
       /\ sconnState' = [cs EXCEPT ![SimpleNext] = "open"]
       /\ sloop' = [l \in Conns |->
                      IF l = SimpleNext \/ l \in moved THEN SimpleNext ELSE sloop[l]]
       /\ sconnected' = TRUE
  ELSE /\ sconnState' = cs
       /\ UNCHANGED <<sconn, sloop, sconnected>>

\* the first Connect of a client
SimpleConnect(dialOK) ==
  /\ sconn = 0 /\ SimpleDialled = {}
  /\ SimpleConnectTo(dialOK, FALSE, {})
  /\ op' = [name |-> "simple Connect", ok |-> dialOK]
  /\ out' = <<>> /\ cb' = <<>> /\ wr' = <<>>
  /\ UNCHANGED BesidesSimple

\* Client.Reconnect
SimpleReconnect(dialOK, moved) ==
  /\ sconn # 0
  /\ dialOK => SimpleDialled # Conns
  /\ moved \subseteq (IF dialOK THEN SimpleLive ELSE {})
  /\ SimpleConnectTo(dialOK, TRUE, moved)
  /\ op' = [name |-> "simple Reconnect", ok |-> dialOK]
  /\ out' = <<>> /\ cb' = <<>> /\ wr' = <<>>
  /\ UNCHANGED BesidesSimple

\* the transport of an open connection fails
SimpleConnFail(k) ==
  /\ sconnState[k] = "open"
  /\ sconnState' = [sconnState EXCEPT ![k] = "failed"]
  /\ op' = [name |-> "simple fail", on |-> k]
  /\ out' = <<>> /\ cb' = <<>> /\ wr' = <<>>
  /\ UNCHANGED <<sconn, sloop, sconnected>>
  /\ UNCHANGED BesidesSimple

\* readLoop returns: ReadMessage failed on a closed or failed handle (or the
\* loop found its context cancelled); the deferred function sets
\* c.connected = false
SimpleDeferred(isConnected) == FALSE
SimpleLoopReturn(l) ==
  /\ sloop[l] # LoopNone /\ sconnState[sloop[l]] \in {"closed", "failed"}
  /\ sloop' = [sloop EXCEPT ![l] = LoopNone]
  /\ sconnected' = SimpleDeferred(sconnected)
  /\ op' = [name |-> "simple return", on |-> sloop[l]]
  /\ out' = <<>> /\ cb' = <<>> /\ wr' = <<>>
  /\ UNCHANGED <<sconn, sconnState>>
  /\ UNCHANGED BesidesSimple

\* readLoop handles a message of the gateway: "stream" and "delta" call
\* onMessage with the message's done flag, "response" and "message" with true
SimpleRecv(l, done) ==
  /\ sloop[l] # LoopNone /\ sconnState[sloop[l]] = "open"
  /\ sloop' = [sloop EXCEPT ![l] = sconn]
  /\ op' = [name |-> "simple message", on |-> sloop[l]]
  /\ cb' = <<[content |-> <<>>, done |-> done]>>
  /\ out' = <<>> /\ wr' = <<>>
  /\ UNCHANGED <<sconn, sconnState, sconnected>>
  /\ UNCHANGED BesidesSimple

\* Client.Send
SimpleSend ==
  /\ op' = [name |-> "simple Send",
            ret |-> IF ~sconnected \/ sconn = 0 THEN "not connected"
                    ELSE IF sconnState[sconn] = "open" THEN "nil" ELSE "write error"]
  /\ wr' = IF ~sconnected \/ sconn = 0 THEN <<>>
           ELSE <<[conn |-> sconn, id |-> <<>>, ok |-> sconnState[sconn] = "open"]>>
  /\ out' = <<>> /\ cb' = <<>>
  /\ UNCHANGED simple
  /\ UNCHANGED BesidesSimple

\* ---------------------------------------------------- editor front end

BesidesEditor == <<main, client, transport, bridge, history, session, identity, simple, relay>>

\* the lines of the bridge that init.lua distinguishes
StreamLine(done) == [kind |-> "stream", done |-> done]
OkLine == [kind |-> "ok"]
ErrorLine == [kind |-> "error"]

\* handle_message on one line, st holding response_in_progress, the
\* scheduled callbacks and the unanswered sends: handle_stream only schedules
\* its body; a result with status "ok" runs finalize_response at once, which
\* clears the flag and schedules the blank lines; an error schedules a notice
handle_message(line, st) ==
  CASE line.kind = "stream"
         -> [st EXCEPT !.sched = Append(@, "stream")]
    [] line.kind = "ok"
         -> [flag |-> FALSE, sched |-> Append(st.sched, "blank"),
             unanswered |-> IF st.unanswered > 0 THEN st.unanswered - 1 ELSE 0]
    [] OTHER
         -> [st EXCEPT !.sched = Append(@, "notify"),
                       !.unanswered = IF @ > 0 THEN @ - 1 ELSE 0]

\* on_stdout: handle_message on every line of the batch, in order
RECURSIVE on_stdout(_, _)
on_stdout(data, st) ==
  IF data = <<>> THEN st ELSE on_stdout(Tail(data), handle_message(Head(data), st))

\* the body handle_stream scheduled: the flag is set if it was not
StreamBody(flag) == TRUE

\* M.send_message: refused while response_in_progress; otherwise the update of
\* the user buffer is scheduled and the send request is written to the bridge
SendMessage ==
  /\ sends < MaxSends
  /\ op' = [name |-> "send_message", accepted |-> ~response_in_progress]
  /\ IF response_in_progress
     THEN UNCHANGED <<scheduled, unanswered, running, sends>>
     ELSE /\ scheduled' = Append(scheduled, "sent")
          /\ unanswered' = unanswered + 1
          /\ running' = running + 1
          /\ sends' = sends + 1
  /\ out' = <<>> /\ cb' = <<>> /\ wr' = <<>>
  /\ UNCHANGED <<response_in_progress, pipe, emitted>>
  /\ UNCHANGED BesidesEditor

\* the bridge writes a stream notification of the run of a send; with
\* done=true handleGatewayMessage writes the ok result right after it
BridgeStream(done) ==
  /\ running > 0
  /\ emitted + (IF done THEN 2 ELSE 3) <= MaxLines
  /\ pipe' = pipe \o (IF done THEN <<StreamLine(TRUE), OkLine>> ELSE <<StreamLine(FALSE)>>)
  /\ emitted' = emitted + (IF done THEN 2 ELSE 1)
  /\ running' = IF done THEN running - 1 ELSE running
  /\ op' = [name |-> "bridge stream", done |-> done]
  /\ out' = <<>> /\ cb' = <<>> /\ wr' = <<>>
  /\ UNCHANGED <<response_in_progress, scheduled, unanswered, sends>>
  /\ UNCHANGED BesidesEditor

\* the bridge answers a send with an error response
BridgeError ==
  /\ running > 0
  /\ emitted + 1 <= MaxLines
  /\ pipe' = Append(pipe, ErrorLine)
  /\ emitted' = emitted + 1
  /\ running' = running - 1
  /\ op' = [name |-> "bridge error"]
  /\ out' = <<>> /\ cb' = <<>> /\ wr' = <<>>
  /\ UNCHANGED <<response_in_progress, scheduled, unanswered, sends>>
  /\ UNCHANGED BesidesEditor

\* the job's on_stdout callback is called with the first n lines of the pipe
OnStdout(n) ==
  /\ n \in 1..Len(pipe)
  /\ LET st == on_stdout(SubSeq(pipe, 1, n),
                         [flag |-> response_in_progress, sched |-> scheduled,
                          unanswered |-> unanswered])
     IN /\ response_in_progress' = st.flag
        /\ scheduled' = st.sched
        /\ unanswered' = st.unanswered
  /\ pipe' = SubSeq(pipe, n + 1, Len(pipe))
  /\ op' = [name |-> "on_stdout", lines |-> n]
  /\ out' = <<>> /\ cb' = <<>> /\ wr' = <<>>
  /\ UNCHANGED <<running, emitted, sends>>
  /\ UNCHANGED BesidesEditor

\* the editor's main loop runs the callback scheduled first
RunScheduled ==
  /\ scheduled # <<>>
  /\ response_in_progress' = IF Head(scheduled) = "stream"
                             THEN StreamBody(response_in_progress)
                             ELSE response_in_progress
  /\ scheduled' = Tail(scheduled)
  /\ op' = [name |-> "scheduled", callback |-> Head(scheduled)]
  /\ out' = <<>> /\ cb' = <<>> /\ wr' = <<>>
  /\ UNCHANGED <<pipe, unanswered, running, emitted, sends>>
  /\ UNCHANGED BesidesEditor

\* ------------------------------------------------ subprocess-relay client

BesidesRelay == <<main, client, transport, bridge, history, session, identity, simple, editor>>

\* the call the scanner loop makes for an output line, and its mutation
StreamedDone(s, line) == [send |-> s, done |-> TRUE, line |-> line]
Streamed(s, line) == [send |-> s, done |-> FALSE, line |-> line]

\* the call after the scanner loop: onMessage("", true)
Completion(s) == [send |-> s, done |-> TRUE, line |-> 0]

\* scanner.Scan returns false: the read end was closed under the reader, or
\* the process has exited and the pipe is drained (end of file)
ScanEnds(s) == rclosed[s] \/ (rexited[s] /\ rpipe[s] = <<>>)

\* Send: the pipes are made and the command started under the mutex; on
\* failure an error is returned and nothing runs; on success the three
\* goroutines are started and nil is returned. n is what the command will write.
RelaySend(startOK, n) ==
  /\ rsends < MaxRelay
  /\ IF startOK
     THEN LET s == rsends + 1
          IN /\ rsends' = s
             /\ rleft' = [rleft EXCEPT ![s] = n]
             /\ rscan' = [rscan EXCEPT ![s] = "scanning"]
             /\ op' = [name |-> "relay Send", ret |-> "nil", send |-> s]
     ELSE /\ n = 0
          /\ UNCHANGED <<rsends, rleft, rscan>>
          /\ op' = [name |-> "relay Send", ret |-> "start command", send |-> 0]
  /\ out' = <<>> /\ cb' = <<>> /\ wr' = <<>>
  /\ UNCHANGED <<rexited, rpipe, rclosed, rcalls>>
  /\ UNCHANGED BesidesRelay

\* the command writes its next line to stdout
ProcWrite(s) ==
  /\ s <= rsends /\ ~rexited[s] /\ rleft[s] > 0
  /\ rpipe' = [rpipe EXCEPT ![s] = Append(@, MaxOut - rleft[s] + 1)]
  /\ rleft' = [rleft EXCEPT ![s] = @ - 1]
  /\ op' = [name |-> "relay write", send |-> s]
  /\ out' = <<>> /\ cb' = <<>> /\ wr' = <<>>
  /\ UNCHANGED <<rsends, rexited, rclosed, rscan, rcalls>>
  /\ UNCHANGED BesidesRelay

\* the command exits: it has finished, it failed, or the context's timeout
\* killed it
ProcExit(s) ==
  /\ s <= rsends /\ ~rexited[s]
  /\ rexited' = [rexited EXCEPT ![s] = TRUE]
  /\ op' = [name |-> "relay exit", send |-> s]
  /\ out' = <<>> /\ cb' = <<>> /\ wr' = <<>>
  /\ UNCHANGED <<rsends, rleft, rpipe, rclosed, rscan, rcalls>>
  /\ UNCHANGED BesidesRelay

\* the third goroutine: cmd.Wait returns once the command has exited and
\* closes the read ends of the pipes, whatever is still unread in them
RelayWait(s) ==
  /\ s <= rsends /\ rexited[s] /\ ~rclosed[s]
  /\ rclosed' = [rclosed EXCEPT ![s] = TRUE]
  /\ rpipe' = [rpipe EXCEPT ![s] = <<>>]
  /\ op' = [name |-> "relay Wait", send |-> s]
  /\ out' = <<>> /\ cb' = <<>> /\ wr' = <<>>
  /\ UNCHANGED <<rsends, rleft, rexited, rscan, rcalls>>
  /\ UNCHANGED BesidesRelay

\* the first goroutine: scanner.Scan returns a line, onMessage(line, false)
RelayScan(s) ==
  /\ s <= rsends /\ rscan[s] = "scanning"
  /\ ~rclosed[s] /\ rpipe[s] # <<>>
  /\ rcalls' = Append(rcalls, Streamed(s, Head(rpipe[s])))
  /\ rpipe' = [rpipe EXCEPT ![s] = Tail(@)]
  /\ op' = [name |-> "relay line", send |-> s]
  /\ out' = <<>> /\ cb' = <<>> /\ wr' = <<>>
  /\ UNCHANGED <<rsends, rleft, rexited, rclosed, rscan>>
  /\ UNCHANGED BesidesRelay

\* the first goroutine: the scanner loop ends, onMessage("", true), return
RelayScanEnd(s) ==
  /\ s <= rsends /\ rscan[s] = "scanning"
  /\ ScanEnds(s)
  /\ rcalls' = Append(rcalls, Completion(s))
  /\ rscan' = [rscan EXCEPT ![s] = "returned"]
  /\ op' = [name |-> "relay done", send |-> s]
  /\ out' = <<>> /\ cb' = <<>> /\ wr' = <<>>
  /\ UNCHANGED <<rsends, rleft, rexited, rpipe, rclosed>>
  /\ UNCHANGED BesidesRelay

\* ------------------------------------------------------- specification

\* what the front end and the read loops do on an established transport
Dispatch ==
  \/ \E id \in Ids : ReqSend(id)
  \/ SendCall
  \/ SendRecord
  \/ \E id \in Ids : ReqStatus(id)

Handshake ==
  \/ \E l \in Conns, f \in ChallengeFrames : RecvChallenge(l, f)
  \/ \E l \in Conns, f \in ResFrames : RecvRes(l, f)

\* the whole program: connection loss and reconnection included, the
\* gateway's chat events drawn from ShortEvents
Next ==
  \/ \E ok \in BOOLEAN : BridgeConnect(ok)
  \/ Dispatch
  \/ Handshake
  \/ \E id \in Ids, ok \in BOOLEAN, moved \in SUBSET Conns : ReqReconnect(id, ok, moved)
  \/ \E k \in Conns : ConnFail(k)
  \/ \E l \in Conns : LoopErr(l)
  \/ \E l \in Conns, e \in ShortEvents : RecvChat(l, e)

Spec == Init /\ [][Next]_vars

\* one connection that stays up, the gateway's chat events drawn from all of
\* ChatEvents: run tracking and delta computation
NextRun ==
  \/ \E ok \in BOOLEAN : BridgeConnect(ok)
  \/ Dispatch
  \/ Handshake
  \/ \E l \in Conns, e \in ChatEvents : RecvChat(l, e)

SpecRun == Init /\ [][NextRun]_vars

\* one connection that stays up, the gateway's chat events carrying the
\* cumulative texts of the documented exchange, in any order and state
NextAnswer ==
  \/ \E ok \in BOOLEAN : BridgeConnect(ok)
  \/ Dispatch
  \/ Handshake
  \/ \E l \in Conns, e \in AnswerEvents : RecvChat(l, e)

SpecAnswer == Init /\ [][NextAnswer]_vars

\* the dispatch loop over every kind of input line, on one connection that
\* stays up and carries no chat events
NextBridge ==
  \/ \E ok \in BOOLEAN : BridgeConnect(ok)
  \/ Dispatch
  \/ Handshake
  \/ ReqBlank
  \/ ReqMalformed
  \/ \E malformed \in BOOLEAN : ReqTooLong(malformed)
  \/ \E id \in Ids : ReqSendInvalid(id)
  \/ \E id \in Ids : ReqUnknown(id)
  \/ \E id \in Ids, renameOK, writeOK \in BOOLEAN : ReqArchive(id, renameOK, writeOK)
  \/ \E id \in Ids, renameOK, writeOK \in BOOLEAN : ReqSessionPath(id, renameOK, writeOK)

SpecBridge == Init /\ [][NextBridge]_vars

\* one connection that stays up, to a gateway that may deliver its challenge
\* more than once
NextChallenge ==
  \/ \E ok \in BOOLEAN : BridgeConnect(ok)
  \/ Dispatch
  \/ Handshake
  \/ \E l \in Conns, f \in ChallengeFrames : RecvChallengeAgain(l, f)

SpecChallenge == Init /\ [][NextChallenge]_vars

\* one connection that stays up, the client constructed from any identity
\* file or none
InitAny ==
  InitGateway /\ InitAnyIdentity /\ InitManager(DefaultMaxSize, TRUE) /\ InitOthers

NextIdentity ==
  \/ \E ok \in BOOLEAN : BridgeConnect(ok)
  \/ Dispatch
  \/ Handshake

SpecIdentity == InitAny /\ [][NextIdentity]_vars

\* the simple direct-socket client alone
NextSimple ==
  \/ \E ok \in BOOLEAN : SimpleConnect(ok)
  \/ \E ok \in BOOLEAN, moved \in SUBSET Conns : SimpleReconnect(ok, moved)
  \/ \E k \in Conns : SimpleConnFail(k)
  \/ \E l \in Conns : SimpleLoopReturn(l)
  \/ \E l \in Conns, done \in BOOLEAN : SimpleRecv(l, done)
  \/ SimpleSend

SpecSimple == Init /\ [][NextSimple]_vars

\* the editor front end and the bridge's answers to its send requests
NextEditor ==
  \/ SendMessage
  \/ \E done \in BOOLEAN : BridgeStream(done)
  \/ BridgeError
  \/ \E n \in 1..MaxLines : OnStdout(n)
  \/ RunScheduled

SpecEditor == Init /\ [][NextEditor]_vars

\* the subprocess-relay client: Sends, their commands and their goroutines
NextRelay ==
  \/ \E startOK \in BOOLEAN, n \in 0..MaxOut : RelaySend(startOK, n)
  \/ \E s \in Relays : ProcWrite(s)
  \/ \E s \in Relays : ProcExit(s)
  \/ \E s \in Relays : RelayWait(s)
  \/ \E s \in Relays : RelayScan(s)
  \/ \E s \in Relays : RelayScanEnd(s)

SpecRelay == Init /\ [][NextRelay]_vars

\* every command exits (at the latest the 600 s context kills it) and every
\* goroutine that can take a step does so
SpecRelayLive ==
  /\ SpecRelay
  /\ \A s \in Relays :
       /\ WF_vars(ProcExit(s))
       /\ WF_vars(RelayWait(s))
       /\ WF_vars(RelayScan(s))
       /\ WF_vars(RelayScanEnd(s))

\* the session log manager alone, under every configuration
InitSession ==
  /\ InitGateway /\ InitIdentity /\ InitOthers
  /\ \E max \in Thresholds, auto \in BOOLEAN : InitManager(max, auto)

NextSession ==
  \/ \E renameOK, writeOK \in BOOLEAN : CallEnsureSession(renameOK, writeOK)
  \/ \E renameOK \in BOOLEAN : CallArchive(renameOK)
  \/ AppendTurn
  \/ Tick

SpecSession == InitSession /\ [][NextSession]_vars

\* the bridge's archive and session_path requests on a log the front end
\* appends to, under every configuration
NextArchive ==
  \/ BridgeConnect(TRUE)
  \/ \E id \in Ids, renameOK, writeOK \in BOOLEAN : ReqArchive(id, renameOK, writeOK)
  \/ \E id \in Ids, renameOK, writeOK \in BOOLEAN : ReqSessionPath(id, renameOK, writeOK)
  \/ AppendTurn
  \/ Tick

SpecArchive == InitSession /\ [][NextArchive]_vars

TypeOK ==
  /\ main \in {"init", "run", "exit", "panic"}
  /\ conn \in 0..MaxConn
  /\ connected \in BOOLEAN
  /\ clientReqID \in 0..MaxReq
  /\ activeRunID \in Runs \cup {""}
  /\ lastContent \in Texts \cup {The, TheAnswer, TheAnswerIs42}
  /\ pc \in {"idle", "send", "record"}
  /\ bridgeReqID \in Ids

\* --------------------------------------------------------------- claims

Terminal == {"final", "error", "aborted"}
IsStream(m) == m.t = "notification" /\ m.method = "stream"
IsErrorNotification(m) == m.t = "notification" /\ m.method = "error"
IsOk(m) == m.t = "result" /\ m.body = [status |-> "ok"]

\* C1 (as stated): whenever every event of the run since its acknowledgement
\* strictly extended the text before it, the deltas passed to onMessage
\* concatenate to the last cumulative text.
C1_AnyState ==
  trk.strict => trk.deliv = trk.cum

\* C1 (amended): the same, for runs none of whose events reports state "error"
\* (for that state the server's error text is delivered in place of the delta).
C1_DeltasConcatenate ==
  (trk.strict /\ ~trk.err) => trk.deliv = trk.cum

\* a run that ended after two strictly extending events, the last one terminal
C1_Witness ==
  /\ op.name = "chat" /\ cb # <<>> /\ cb[1].done
  /\ trk.strict /\ ~trk.err /\ trk.n >= 2
  /\ trk.deliv = trk.cum

\* C2: every request id has at most one response, and exactly one once the
\* request is resolved (a send: once the run it started reached a terminal state).
C2_ExactlyOneResponse ==
  \A i \in Ids : resp[i] <= 1 /\ (rq[i] = "resolved" => resp[i] = 1)

\* C3: a chat event whose run is not the active one, or that arrives while no
\* run is active, makes no onMessage call, emits nothing, and leaves
\* activeRunID and lastContent as they were.
C3_ForeignEventIgnored ==
  [][(op'.name = "chat" /\ (activeRunID = "" \/ op'.run # activeRunID))
       => /\ cb' = <<>> /\ out' = <<>>
          /\ activeRunID' = activeRunID
          /\ lastContent' = lastContent]_vars

\* an event of another run was handled while a run with some content is active
C3_Witness ==
  /\ op.name = "chat" /\ activeRunID # "" /\ op.run # activeRunID
  /\ lastContent # <<>> /\ cb = <<>>

\* C4: an event of the active run whose text does not extend lastContent makes
\* no onMessage call and is not adopted as lastContent.
C4_NonExtensionRejected ==
  [][\A l \in Conns, e \in ChatEvents :
       (/\ RecvChat(l, e)
        /\ activeRunID # "" /\ e.runId = activeRunID
        /\ ~IsPrefix(lastContent, e.text))
       => (cb' = <<>> /\ lastContent' # e.text)]_vars

\* C5: an ok response is emitted only by the handling of a terminal event,
\* right after that event's stream notification with done=true, and bears the
\* id of the send whose acknowledgement started the run that ended.
C5_OkAnswersOwnRun ==
  \A i \in 1..Len(out) :
    IsOk(out[i]) =>
      /\ op.name = "chat" /\ i > 1
      /\ IsStream(out[i - 1]) /\ out[i - 1].params.done
      /\ op.src # 0 /\ sendOf[op.src] = out[i].id

C7_ClearedAfterTerminal ==
  [][/\ (/\ op'.name = "chat"
          /\ activeRunID # "" /\ op'.run = activeRunID
          /\ op'.state \in Terminal)
          => (activeRunID' = "" /\ lastContent' = <<>>)
     /\ (op'.name = "chat" /\ op'.run \in ended) => (cb' = <<>> /\ out' = <<>>)]_vars

\* an event of a run that has ended was handled while another run is active
C7_Witness ==
  /\ op.name = "chat" /\ op.run \in ended /\ cb = <<>>
  /\ activeRunID # "" /\ lastContent # <<>>

\* C8: every frame that reaches the gateway is written on a connection on
\* which a connect.challenge has been received.
C8_NoWriteBeforeChallenge ==
  \A i \in 1..Len(wr) : wr[i].ok => wr[i].conn \in challenged

\* C9: an error result to the connect request is passed to onError (an error
\* notification) and leaves connected false; connected becomes true only by an
\* ok result to the connect request of the current connection.
C9_ConnectErrorLeavesDisconnected ==
  [][/\ (op'.name = "res" /\ op'.id = ConnectID /\ ~op'.ok /\ op'.error)
          => (out' = HandleGatewayError("gateway error") /\ ~connected')
     /\ (~connected /\ connected')
          => (op'.name = "res" /\ op'.id = ConnectID /\ op'.ok /\ op'.on = conn)]_vars

\* C10: a failed read and a failed write in Send both leave connected false
\* and emit an error notification, and only Connect and Reconnect dial.
C10_TransportFailureDisconnects ==
  [][/\ (op'.name = "readError" \/ (op'.name = "Send" /\ op'.ret = "write error"))
          => (~connected' /\ \E i \in 1..Len(out') : IsErrorNotification(out'[i]))
     /\ (conn' # conn \/ connState' # connState)
          => op'.name \in {"Connect", "reconnect", "fail"}]_vars

\* C11: a failed read leaves the process running with connected false; status
\* reports the flag; an ok result to the connect request of the current
\* connection sets the flag; and, once a connection was lost, the flag of a
\* connection whose handshake succeeded falls only if that connection is no
\* longer open.
C11_LossIsRecoverable ==
  [][/\ (op'.name = "readError") => (main' = "run" /\ ~connected')
     /\ (op'.name = "status")
          => out' = <<Result(op'.id, [connected |-> connected, gateway |-> GatewayURL])>>
     /\ (op'.name = "res" /\ op'.id = ConnectID /\ op'.ok /\ op'.on = conn) => connected'
     /\ (/\ connected /\ ~connected'
         /\ conn \in authed
         /\ \E k \in Conns : connState[k] = "failed")
          => connState'[conn] # "open"]_vars

\* C12: a result frame sets the active run and empties lastContent when it is
\* the ok result, carrying a run identifier, to the chat-send request issued
\* last (chat-<c.reqID>); every other result frame leaves both as they were.
C12_OnlyLatestSendSetsRun ==
  [][(op'.name = "res")
       => IF /\ op'.ok /\ op'.run # ""
             /\ clientReqID > 0 /\ op'.id = ChatID(clientReqID)
          THEN activeRunID' = op'.run /\ lastContent' = <<>>
          ELSE activeRunID' = activeRunID /\ lastContent' = lastContent]_vars

\* the stream notifications among the messages of the last step
Streams == SelectSeq(out, IsStream)

\* C13: the stream notifications a step emits are, in order, the onMessage
\* calls it made, each with the call's delta and done flag, whatever b.reqID is.
C13_OneStreamPerCallback ==
  /\ Len(Streams) = Len(cb)
  /\ \A i \in 1..Len(cb) :
       Streams[i].params = [delta |-> cb[i].content, done |-> cb[i].done]

\* a delta was forwarded while no send awaited its deferred response
C13_Witness ==
  /\ op.name = "chat" /\ cb # <<>> /\ ~cb[1].done /\ cb[1].content # <<>>
  /\ bridgeReqID = 0
  /\ Len(Streams) = 1

\* the callbacks of the documented exchange
AnswerCalls ==
  << [content |-> The, done |-> FALSE],
     [content |-> <<" ", "a", "n", "s", "w", "e", "r">>, done |-> FALSE],
     [content |-> <<" ", "i", "s", " ", "4", "2", ".">>, done |-> TRUE] >>

\* the event handled is the third of a run whose texts were "The",
\* "The answer" and "The answer is 42."
AnswerThird ==
  /\ op'.name = "chat"
  /\ trk.strict /\ trk.n = 2 /\ trk.cum = TheAnswer
  /\ trk'.strict /\ trk'.n = 3 /\ trk'.cum = TheAnswerIs42

\* the done flag of an event of the active run: a call carries done=true
\* exactly for a terminal state, and a terminal event always makes a call
DoneFlag ==
  /\ (op'.name = "chat" /\ cb' # <<>>)
       => (Len(cb') = 1 /\ (cb'[1].done <=> op'.state \in Terminal))
  /\ (/\ op'.name = "chat" /\ activeRunID # "" /\ op'.run = activeRunID
      /\ op'.state \in Terminal)
       => (cb' # <<>> /\ cb'[1].done)

\* C14 (as stated): the done flag is true exactly for final, error and
\* aborted, and the documented exchange with any terminal state on the third
\* event yields ("The", false), (" answer", false), (" is 42.", true).
C14_AnyTerminal ==
  [][/\ DoneFlag
     /\ (AnswerThird /\ op'.state \in Terminal) => trk'.calls = AnswerCalls]_vars

\* C14 (amended): the same, the third event being in state final or aborted
\* (in state error the server's error text is passed in place of " is 42.").
C14_DoneFlagAndAnswer ==
  [][/\ DoneFlag
     /\ (AnswerThird /\ op'.state \in {"final", "aborted"}) => trk'.calls = AnswerCalls]_vars

\* the documented exchange was handled to its end
C14_Witness ==
  /\ op.name = "chat" /\ op.state \in {"final", "aborted"}
  /\ trk.strict /\ trk.n = 3 /\ trk.cum = TheAnswerIs42
  /\ trk.calls = AnswerCalls
  /\ cb = <<AnswerCalls[3]>>
  /\ activeRunID = ""

\* C15: an event of the active run in state "error" makes exactly one
\* onMessage call, with the server's error text and done=true, whatever its
\* cumulative text, and clears the active run.
C15_ErrorTextDelivered ==
  [][(/\ op'.name = "chat"
       /\ activeRunID # "" /\ op'.run = activeRunID
       /\ op'.state = "error")
       => /\ cb' = <<[content |-> op'.errorMessage, done |-> TRUE]>>
          /\ activeRunID' = "" /\ lastContent' = <<>>]_vars

\* the error text was delivered for an event whose text had grown
C15_Witness ==
  /\ op.name = "chat" /\ op.state = "error"
  /\ cb # <<>> /\ cb[1].content \in ErrorMessages /\ cb[1].done
  /\ trk.strict /\ trk.n >= 2 /\ trk.cum # <<>>
  /\ activeRunID = "" /\ lastContent = <<>>

\* C16: an error result to a chat-send request makes the bridge emit an error
\* response bearing the id of that send, or a stream notification with
\* done=true.
C16_RejectedSendAnswered ==
  [][(op'.name = "res" /\ HasChatPrefix(op'.id) /\ ~op'.ok /\ op'.error)
       => \E i \in 1..Len(out') :
            \/ out'[i].t = "error" /\ out'[i].id = sendOf[ChatNum(op'.id)]
            \/ IsStream(out'[i]) /\ out'[i].params.done]_vars

\* the contents of the archive directory
Archived == {archiveDir[t] : t \in {u \in Stamps : Exists(archiveDir[u])}}

\* C17: every content that was moved aside as the session log is still the
\* current log or a file of the archive directory.
C17_NoLogDataLost ==
  \A c \in rotated : c = sessionFile \/ c \in Archived

\* C18: an EnsureSession call that succeeds on a log that exceeds the
\* threshold, with auto-rotation on, moves the log as it is into the archive directory (one
\* file of the directory changes) and leaves a header-only log; an
\* EnsureSession call that follows one that rotated does not rotate.
C18_ExactlyOneRotation ==
  [][/\ (op'.name = "ensureSession" /\ Rotates(sessionFile) /\ ~op'.err)
          => /\ op'.rotated
             /\ sessionFile \in {archiveDir'[t] : t \in Stamps}
             /\ Cardinality({t \in Stamps : archiveDir'[t] # archiveDir[t]}) = 1
             /\ Len(sessionFile') = 1 /\ sessionFile' # sessionFile
     /\ (op.name = "ensureSession" /\ op.rotated /\ op'.name = "ensureSession")
          => ~op'.rotated]_vars

\* C19: an EnsureSession call on a log whose size does not exceed the
\* threshold returns the session path without error and leaves the log and the
\* archive directory as they were.
C19_EnsureSessionIdempotent ==
  [][(/\ op'.name = "ensureSession"
      /\ Exists(sessionFile) /\ Size(sessionFile) <= maxSizeBytes)
       => /\ ~op'.rotated /\ ~op'.err
          /\ sessionFile' = sessionFile /\ archiveDir' = archiveDir]_vars

\* EnsureSession returned on a log with turns whose size is the threshold,
\* auto-rotation being on
C19_Witness ==
  /\ op.name = "ensureSession" /\ op.existed /\ ~op.rotated
  /\ autoArchive /\ Size(sessionFile) = maxSizeBytes /\ Size(sessionFile) > 1
  /\ Archived # {}

\* C20: Archive called while no log exists returns nil and leaves the session
\* path without a file and the archive directory as it was.
C20_ArchiveWithoutLog ==
  [][(op'.name = "archive" /\ ~Exists(sessionFile))
       => /\ ~op'.err
          /\ ~Exists(sessionFile') /\ archiveDir' = archiveDir]_vars

\* Archive returned nil without a log, the archive directory holding a file
C20_Witness ==
  /\ op.name = "archive" /\ ~op.existed /\ ~op.err
  /\ ~Exists(sessionFile) /\ Archived # {}

\* C21: an archive request answered with success leaves a session log at the
\* non-empty path of the result, and a session_path request handled right
\* after it returns that path and leaves the log and the archive directory as
\* they were.
C21_ArchivedThenSessionPath ==
  [][/\ (op'.name = "handleArchive" /\ op'.ok)
          => /\ out' = <<Result(op'.id, [status |-> "archived", path |-> SessionPath])>>
             /\ Exists(sessionFile')
     /\ (op.name = "handleArchive" /\ op.ok /\ op'.name = "handleSessionPath")
          => /\ out' = <<Result(op'.id, [path |-> out[1].body.path])>>
             /\ sessionFile' = sessionFile /\ archiveDir' = archiveDir]_vars

\* C22: a malformed input line, whatever its length, yields the one
\* parse-error response with id 0, leaves the bridge, the client and the
\* session log as they were, and leaves the bridge reading its input.
C22_MalformedLine ==
  [][(op'.name = "malformed" \/ (op'.name = "tooLong" /\ op'.malformed))
       => /\ out' = <<Error(0, ErrParse, "parse error")>>
          /\ wr' = <<>> /\ cb' = <<>>
          /\ UNCHANGED <<client, bridge, session>>
          /\ main' = "run" /\ pc' = "idle"]_vars

\* C23: a request with a method outside the dispatch table yields the
\* method-not-found error with the request's id, writes nothing to the gateway
\* and leaves the session log, the client and the bridge as they were.
C23_UnknownMethod ==
  [][op'.name = "unknown"
       => /\ out' = <<Error(op'.id, ErrMethodNotFound, "method not found")>>
          /\ wr' = <<>> /\ cb' = <<>>
          /\ UNCHANGED <<client, transport, bridge, session>>]_vars

\* an unknown method with a non-zero id was answered while the client was
\* connected and a run was active
C23_Witness ==
  /\ op.name = "unknown" /\ op.id # 0
  /\ out = <<Error(op.id, ErrMethodNotFound, "method not found")>>
  /\ connected /\ activeRunID # ""

\* C24: a status request leaves the connection, the active run, the
\* accumulated content, the deferred response id and the session log as they
\* were, writes nothing to the gateway, and its result reports the connected
\* flag of the moment.
C24_StatusNoSideEffects ==
  [][op'.name = "status"
       => /\ out' = <<Result(op'.id, [connected |-> connected, gateway |-> GatewayURL])>>
          /\ wr' = <<>> /\ cb' = <<>>
          /\ UNCHANGED <<client, transport, bridge, session>>]_vars

\* a status request answered "not connected" after the transport failed,
\* while a send was awaiting its run
C24_Witness ==
  /\ op.name = "status"
  /\ out = <<Result(op.id, [connected |-> FALSE, gateway |-> GatewayURL])>>
  /\ connState[conn] = "failed" /\ activeRunID # "" /\ bridgeReqID # 0

\* C25: for the first accepted send, with a non-zero id, the done=true
\* callback of its run makes the bridge write the ok result bearing that id,
\* and handleSend never records the id of a send whose run has already ended.
C25_DeferredIdSynchronized ==
  [][/\ (/\ op'.name = "chat" /\ \E j \in 1..Len(cb') : cb'[j].done
         /\ clientReqID = 1 /\ op'.src = 1 /\ sendOf[1] > 0)
          => \E i \in 1..Len(out') : IsOk(out'[i]) /\ out'[i].id = sendOf[1]
     /\ op'.name = "record" => rq[cur] = "pending"]_vars

\* C26: the termination of a read loop of an earlier connection leaves the
\* connected flag alone once the current connection's handshake has
\* succeeded, and writes no error notification while the current connection is
\* open; and every read loop reads only from the handle it was started for.
C26_ReconnectDoesNotRace ==
  [][/\ (op'.name = "readError" /\ op'.on # conn /\ conn \in authed)
          => connected' = connected
     /\ (op'.name = "readError" /\ op'.on # conn /\ connState[conn] = "open")
          => out' = <<>>
     /\ \A l \in Conns : loop'[l] \in {LoopNone, l}]_vars

\* C27: no step reads or writes the connection handle, the connected flag,
\* the active run identifier, the accumulated content or the challenge nonce
\* outside the client's mutex.
C27_AllAccessesLocked ==
  Unlocked(op.name) = {}

\* C28: while connected is true an ok result to the connect request has been
\* read on the current connection, and the flag rises only when such a result
\* is handled.
C28_ConnectedImpliesAuthenticated ==
  [][/\ connected' => conn' \in authed'
     /\ (~connected /\ connected')
          => (op'.name = "res" /\ op'.id = ConnectID /\ op'.ok /\ op'.on = conn)]_vars

\* C29: a connect request is written on a connection only if none was written
\* on it before (each handled challenge writes one) and no ok result to a
\* connect request has been read on it.
C29_OneConnectPerConnection ==
  [][\A i \in 1..Len(wr') :
        (op'.name = "challenge" /\ wr'[i].id = ConnectID /\ wr'[i].ok)
          => (wr'[i].conn \notin challenged /\ wr'[i].conn \notin authed)]_vars

\* C30: when the bridge writes the connected notification the client's
\* connected flag is true; a status request handled right after it reports
\* connected=true and a send handled right after it is not rejected.
C30_ConnectedNotificationMeansConnected ==
  [][/\ (\E i \in 1..Len(out') :
            out'[i].t = "notification" /\ out'[i].method = "connected")
          => connected'
     /\ (op.name = "Connect" /\ op.ok /\ op'.name = "status")
          => out' = <<Result(op'.id, [connected |-> TRUE, gateway |-> GatewayURL])>>
     /\ (op.name = "Connect" /\ op.ok /\ op'.name = "send")
          => out' = <<>>]_vars

\* C31: handling a connect.challenge never ends the process by a panic,
\* whatever loadDeviceIdentity left in the client.
C31_ChallengeNeverPanics ==
  [][op'.name = "challenge" => (main' # "panic" /\ loop' # [k \in Conns |-> LoopNone])]_vars

\* C32: once a Reconnect of the simple client has succeeded, c.connected
\* falls only when the current connection is no longer open, and a Send on an
\* open current connection is not rejected.
C32_ReconnectedStaysConnected ==
  [][/\ (sconn > 1 /\ sconnected /\ ~sconnected') => sconnState'[sconn'] # "open"
     /\ (op'.name = "simple Send" /\ sconn > 1 /\ sconnState[sconn] = "open")
          => op'.ret = "nil"]_vars

\* C33: send_message writes a send request to the bridge only when the
\* response to every earlier send has been handled.
C33_OneSendOutstanding ==
  [][(op'.name = "send_message" /\ op'.accepted) => unanswered = 0]_vars

\* C34: when every send has been answered, nothing is left in the pipe and no
\* scheduled callback is left to run, response_in_progress is false.
C34_FlagClearedAfterOk ==
  (sends > 0 /\ unanswered = 0 /\ running = 0 /\ pipe = <<>> /\ scheduled = <<>>)
    => ~response_in_progress

\* the calls of onMessage made for Send s, as positions of rcalls
CallsOf(s) == {i \in 1..Len(rcalls) : rcalls[i].send = s}
DoneCallsOf(s) == {i \in CallsOf(s) : rcalls[i].done}

\* per Send: at most one done=true call, no call after it, the done=false
\* calls carry the output lines in output order, and the goroutine has
\* returned only after its done=true call
RelayOrdered ==
  \A s \in Relays :
    /\ Cardinality(DoneCallsOf(s)) <= 1
    /\ \A i, j \in CallsOf(s) : i < j => (~rcalls[i].done /\ (~rcalls[j].done => rcalls[i].line < rcalls[j].line))
    /\ rscan[s] = "returned" => Cardinality(DoneCallsOf(s)) = 1

\* C35: every Send of the subprocess-relay client that returned nil leads to
\* exactly one onMessage call with done=true, made after every done=false
\* call of that Send, and these carry the output lines in output order.
C35_OneDoneAfterLines ==
  /\ []RelayOrdered
  /\ \A s \in Relays : (rsends >= s) ~> (Cardinality(DoneCallsOf(s)) = 1)

\* two Sends ran side by side, each streamed a line and then completed
C35_Witness ==
  /\ \A s \in Relays : rscan[s] = "returned" /\ Cardinality(CallsOf(s)) >= 2
  /\ rcalls[1].send # rcalls[2].send

\* C36: with auto-archive off, EnsureSession on an existing log returns the
\* session path without error and leaves the log and the archive directory
\* as they were, whatever the size of the log.
C36_NoRotationWhenDisabled ==
  [][(op'.name = "ensureSession" /\ ~autoArchive /\ Exists(sessionFile))
       => /\ op'.path = SessionPath /\ ~op'.err
          /\ sessionFile' = sessionFile /\ archiveDir' = archiveDir]_vars

\* EnsureSession has run with auto-archive off on a log above the threshold
C36_Witness ==
  /\ op.name = "ensureSession" /\ op.existed /\ ~autoArchive
  /\ Exceeds(Size(sessionFile), maxSizeBytes)
  /\ op.path = SessionPath /\ ~op.rotated

====
